---- MODULE Spec2Model ----
(***************************************************************************)
(* Model of src/mcp-servers/library-mcp/server.py: the library index over  *)
(* a ChromaDB collection.  The tool handlers (index_pdf, search_library,   *)
(* list_indexed_papers, remove_paper) are synchronous functions called     *)
(* from the coroutine call_tool without any await in between, so on the    *)
(* server's single event loop one handler runs to completion before the    *)
(* next starts: every handler is one action.  Calls into the embedding     *)
(* model and into ChromaDB may raise; the call that raises (at most one    *)
(* per handler run) is an input of the action.                             *)
(***************************************************************************)
EXTENDS Integers, Sequences, FiniteSets, TLC

VARIABLES
    store,            \* the records of the "papers" collection, in insertion order
    chroma_client,    \* the global _chroma_client
    collection,       \* the global _collection
    embedding_model,  \* the global _embedding_model
    inflight,         \* tool calls received whose handler has not run yet
    nops,             \* number of tool calls handled so far
    last,             \* the last tool call handled: arguments, inputs, outcome
    chunker           \* a run of chunk_text on its own: arguments and locals

vars == <<store, chroma_client, collection, embedding_model, inflight, nops,
          last, chunker>>

\* Bound on the number of tool calls received in a run.
MaxOps == 3
\* Bound on the number of tool calls in flight at a time.
MaxInflight == 2

None == "None"

Min(a, b) == IF a < b THEN a ELSE b
Max(a, b) == IF a > b THEN a ELSE b

Range(s) == {s[i] : i \in DOMAIN s}

(***************************************************************************)
(* Text: a str is a sequence of one-character strings.                     *)
(***************************************************************************)
\* The characters str.strip() removes (those for which str.isspace() holds):
\* space, tab, line feed, carriage return, form feed, and, written as the
\* characters themselves, U+000B, U+001C to U+001F, U+0085, U+00A0, U+1680.
\* (Python counts U+2000 to U+200A, U+2028, U+2029, U+202F, U+205F and
\* U+3000 as well; a string of this module cannot hold them.)
Whitespace ==
    {" ", "\t", "\n", "\r", "\f",
     "", "", "", "", "", "", " ", " "}

\* text[start:end] (python slice: 0-based, end exclusive, a negative index
\* counts from the end of the text, indexes beyond the text are clipped)
Slice(text, start, end) ==
    LET clip(i) == IF i < 0 THEN Max(Len(text) + i, 0) ELSE Min(i, Len(text))
    IN  SubSeq(text, clip(start) + 1, clip(end))

\* str.strip()
Strip(s) ==
    LET solid == {i \in 1..Len(s) : s[i] \notin Whitespace}
    IN  IF solid = {} THEN <<>>
        ELSE LET lo == CHOOSE i \in solid : \A j \in solid : i <= j
                 hi == CHOOSE i \in solid : \A j \in solid : j <= i
             IN  SubSeq(s, lo, hi)

DefaultChunkSize == 1000
DefaultOverlap == 200

\* Variant of ChunkIter: start moves on by chunk_size + overlap.
ChunkIter_SkipAhead(text, chunk_size, overlap, start, chunks) ==
    LET chunk == Slice(text, start, start + chunk_size)
    IN  [start |-> start + (chunk_size + overlap),
         chunks |-> IF Strip(chunk) # <<>>
                    THEN Append(chunks, Strip(chunk))
                    ELSE chunks]

\* Variant of ChunkIter: start moves on by chunk_size, windows do not overlap.
ChunkIter_NoOverlap(text, chunk_size, overlap, start, chunks) ==
    LET chunk == Slice(text, start, start + chunk_size)
    IN  [start |-> start + chunk_size,
         chunks |-> IF Strip(chunk) # <<>>
                    THEN Append(chunks, Strip(chunk))
                    ELSE chunks]

\* the body of the while loop of chunk_text (lines 62-66): start and chunks
\* after one pass
ChunkIter(text, chunk_size, overlap, start, chunks) ==
    LET end == start + chunk_size
        chunk == Slice(text, start, end)
    IN  [start |-> start + (chunk_size - overlap),
         chunks |-> IF Strip(chunk) # <<>>
                    THEN Append(chunks, Strip(chunk))
                    ELSE chunks]

\* the while loop of chunk_text, entered with the given start and chunks
RECURSIVE ChunkLoop(_, _, _, _, _)
ChunkLoop(text, chunk_size, overlap, start, chunks) ==
    IF start < Len(text)
    THEN LET pass == ChunkIter(text, chunk_size, overlap, start, chunks)
         IN  ChunkLoop(text, chunk_size, overlap, pass.start, pass.chunks)
    ELSE chunks

chunk_text(text, chunk_size, overlap) ==
    ChunkLoop(text, chunk_size, overlap, 0, <<>>)

(***************************************************************************)
(* Paths and the identity generator.  hashlib.md5(path).hexdigest()[:8]    *)
(* maps any string to 8 hex digits; the table holds its values on the      *)
(* paths of the model (the first two paths have the same 8 digits).        *)
(***************************************************************************)
PathA == "/library/paper29734.pdf"
PathB == "/library/paper59018.pdf"
PathC == "/library/paper0.pdf"
PathTxt == "/library/notes.txt"

Paths == {PathA, PathB, PathC, PathTxt}

Md5Hex8(path) ==
    CASE path = PathA -> "3a6562fc"
      [] path = PathB -> "3a6562fc"
      [] path = PathC -> "fffe61c0"
      [] path = PathTxt -> "6f033513"

\* Path(p).suffix.lower()
SuffixLower(path) ==
    CASE path = PathTxt -> ".txt"
      [] OTHER -> ".pdf"

\* Path(p).stem
Stem(path) ==
    CASE path = PathA -> "paper29734"
      [] path = PathB -> "paper59018"
      [] path = PathC -> "paper0"
      [] path = PathTxt -> "notes"

\* f"{path_hash}_{chunk_index}": the hash has a fixed width, so the string
\* determines the pair and the pair the string
generate_doc_id(path, chunk_index) ==
    LET path_hash == Md5Hex8(path)
    IN  <<path_hash, chunk_index>>

(***************************************************************************)
(* The PDF files the calls may find at a path: fitz's extracted text and   *)
(* doc.metadata.  File 0 stands for "no file at that path".                *)
(***************************************************************************)
\* a text of the given length, blank except for ch at the given positions
\* (positions count from 1)
MkText(len, ch, at) == [i \in 1..len |-> IF i \in at THEN ch ELSE " "]

NoMeta == [k \in {} |-> ""]
FullMeta == [title |-> "T", author |-> "Au"]

Files == <<
    [text |-> <<>>,                            metadata |-> FullMeta],
    [text |-> <<"\t", "\n", " ">>,             metadata |-> FullMeta],
    [text |-> <<" ", "a", " ">>,               metadata |-> NoMeta],
    [text |-> <<"b">>,                         metadata |-> FullMeta],
    [text |-> MkText(1001, "a", {1, 1001}),    metadata |-> FullMeta],
    [text |-> MkText(1801, "b", {1, 1801}),    metadata |-> NoMeta],
    [text |-> MkText(1801, "a", {1, 1001, 1801}), metadata |-> FullMeta]
>>

NoFile == 0
FileIds == DOMAIN Files

\* text.strip() and chunk_text(text) of each file, as index_pdf computes them
\* (tabulated over the files of the model)
StrippedText == [f \in FileIds |-> Strip(Files[f].text)]
FileChunks ==
    [f \in FileIds |->
        chunk_text(Files[f].text, DefaultChunkSize, DefaultOverlap)]

\* dict.get(key, default)
DictGet(d, key, default) == IF key \in DOMAIN d THEN d[key] ELSE default

(***************************************************************************)
(* The ChromaDB collection: a sequence of records                          *)
(* [id, document, metadata], ids unique.  (Embeddings are a function of    *)
(* the document and are left out of the record.)                           *)
(***************************************************************************)
StoreIds(st) == {st[i].id : i \in DOMAIN st}

\* the records whose metadata "source" is the given one, in store order
RecordsOf(st, source) ==
    LET hit(r) == r.metadata.source = source
    IN  SelectSeq(st, hit)

\* Variant of CollGetIds: the where filter is not applied.
CollGetIds_NoFilter(st, source) == [i \in DOMAIN st |-> st[i].id]

\* collection.get(where={"source": source})["ids"]
CollGetIds(st, source) ==
    LET hit(r) == r.metadata.source = source
        hits == SelectSeq(st, hit)
    IN  [i \in DOMAIN hits |-> hits[i].id]

\* Variant of CollDelete: only the record of the first id is deleted.
CollDelete_FirstOnly(st, ids) ==
    LET keep(r) == ids = <<>> \/ r.id # ids[1]
    IN  SelectSeq(st, keep)

\* collection.delete(ids=ids)
CollDelete(st, ids) ==
    LET keep(r) == r.id \notin Range(ids)
    IN  SelectSeq(st, keep)

\* Variant of CollAdd: a record whose id the collection already holds
\* replaces the one held (an upsert).
CollAdd_Upsert(st, ids, documents, metadatas) ==
    LET recs == [i \in DOMAIN ids |->
                    [id |-> ids[i], document |-> documents[i],
                     metadata |-> metadatas[i]]]
        keep(r) == r.id \notin Range(ids)
    IN  SelectSeq(st, keep) \o recs

\* collection.add(ids, embeddings, documents, metadatas): a record whose id
\* the collection already holds is ignored without an exception, the others
\* are appended (ChromaDB's add as of the versions that have the
\* PersistentClient of line 40)
CollAdd(st, ids, documents, metadatas) ==
    LET recs == [i \in DOMAIN ids |->
                    [id |-> ids[i], document |-> documents[i],
                     metadata |-> metadatas[i]]]
        fresh(r) == r.id \notin StoreIds(st)
    IN  st \o SelectSeq(recs, fresh)

\* collection.count()
CollCount(st) == Len(st)

(***************************************************************************)
(* Calls that may raise, one of which an action may pick to raise.         *)
(***************************************************************************)
FaultSites == {"model_init", "encode", "client_init", "collection_init",
               "get", "delete", "add", "count", "query"}
Faults == FaultSites \cup {"none"}

\* what a handler leaves behind: the store, the three globals, its outcome
Effect(st, cl, co, em, out) ==
    [store |-> st, chroma_client |-> cl, collection |-> co,
     embedding_model |-> em, outcome |-> out]

Raised == [kind |-> "raise"]
Returned(value) == [kind |-> "return", value |-> value]

\* get_chroma_client(): the globals after the call and whether it raised
get_chroma_client(cl, co, fault) ==
    IF cl = None
    THEN IF fault = "client_init"
         THEN [chroma_client |-> cl, collection |-> co, raised |-> TRUE]
         ELSE IF fault = "collection_init"
         THEN [chroma_client |-> "client", collection |-> co, raised |-> TRUE]
         ELSE [chroma_client |-> "client", collection |-> "papers",
               raised |-> FALSE]
    ELSE [chroma_client |-> cl, collection |-> co, raised |-> FALSE]

\* get_embedding_model(): the global after the call and whether it raised
get_embedding_model(em, fault) ==
    IF em = None
    THEN IF fault = "model_init"
         THEN [embedding_model |-> em, raised |-> TRUE]
         ELSE [embedding_model |-> "model", raised |-> FALSE]
    ELSE [embedding_model |-> em, raised |-> FALSE]

\* lines 128-134 of index_pdf: the try block that removes the existing
\* entries of the file; any exception in it is swallowed
RemoveExisting(st, co, source, fault) ==
    IF co = None \/ fault = "get" THEN st
    ELSE LET existing == CollGetIds(st, source)
         IN  IF existing # <<>>
             THEN IF fault = "delete" THEN st ELSE CollDelete(st, existing)
             ELSE st

\* lines 116-126 of index_pdf
NewIds(path, chunks) == [i \in DOMAIN chunks |-> generate_doc_id(path, i - 1)]

NewMetadatas(path, title, author, chunks) ==
    [i \in DOMAIN chunks |->
        [source |-> path, title |-> title, author |-> author,
         chunk_index |-> i - 1, total_chunks |-> Len(chunks)]]

\* lines 108-149 of index_pdf: embed the chunks, replace the records of the
\* path by the new ones, report
IndexChunks(st, cl, co, em, pdf_path, title, author, chunks, fault) ==
    LET m == get_embedding_model(em, fault) IN
    IF m.raised \/ fault = "encode"
    THEN Effect(st, cl, co, m.embedding_model, Raised)
    ELSE
    LET c == get_chroma_client(cl, co, fault) IN
    IF c.raised
    THEN Effect(st, c.chroma_client, c.collection, m.embedding_model, Raised)
    ELSE
    LET ids == NewIds(pdf_path, chunks)
        metadatas == NewMetadatas(pdf_path, title, author, chunks)
        removed == RemoveExisting(st, c.collection, pdf_path, fault)
    IN
    IF c.collection = None \/ fault = "add"
    THEN Effect(removed, c.chroma_client, c.collection, m.embedding_model,
                Raised)
    ELSE Effect(CollAdd(removed, ids, chunks, metadatas),
                c.chroma_client, c.collection, m.embedding_model,
                Returned([success |-> TRUE, path |-> pdf_path,
                          title |-> title, chunks_indexed |-> Len(chunks)]))

\* index_pdf without its two checks of the text (lines 99-100, 105-106)
index_pdf_Unchecked(st, cl, co, em, pdf_path, file, fault) ==
    IF file = NoFile
    THEN Effect(st, cl, co, em,
                Returned([success |-> FALSE, error |-> "File not found"]))
    ELSE IF SuffixLower(pdf_path) # ".pdf"
    THEN Effect(st, cl, co, em,
                Returned([success |-> FALSE, error |-> "Not a PDF"]))
    ELSE IndexChunks(st, cl, co, em, pdf_path,
                     DictGet(Files[file].metadata, "title", Stem(pdf_path)),
                     DictGet(Files[file].metadata, "author", "Unknown"),
                     FileChunks[file], fault)

\* index_pdf(pdf_path), the file at the path being the given one
index_pdf(st, cl, co, em, pdf_path, file, fault) ==
    IF file = NoFile
    THEN Effect(st, cl, co, em,
                Returned([success |-> FALSE, error |-> "File not found"]))
    ELSE IF SuffixLower(pdf_path) # ".pdf"
    THEN Effect(st, cl, co, em,
                Returned([success |-> FALSE, error |-> "Not a PDF"]))
    ELSE
    LET metadata == Files[file].metadata
        title == DictGet(metadata, "title", Stem(pdf_path))
        author == DictGet(metadata, "author", "Unknown")
    IN
    IF StrippedText[file] = <<>>
    THEN Effect(st, cl, co, em,
                Returned([success |-> FALSE,
                          error |-> "No text content found in PDF"]))
    ELSE
    LET chunks == FileChunks[file] IN
    IF chunks = <<>>
    THEN Effect(st, cl, co, em,
                Returned([success |-> FALSE, error |-> "No chunks generated"]))
    ELSE IndexChunks(st, cl, co, em, pdf_path, title, author, chunks, fault)

\* remove_paper(pdf_path)
remove_paper(st, cl, co, em, pdf_path, fault) ==
    LET c == get_chroma_client(cl, co, fault) IN
    IF c.raised
    THEN Effect(st, c.chroma_client, c.collection, em, Raised)
    ELSE IF c.collection = None \/ fault = "get"
    THEN Effect(st, c.chroma_client, c.collection, em,
                Returned([success |-> FALSE, error |-> "exception"]))
    ELSE
    LET existing == CollGetIds(st, pdf_path) IN
    IF existing # <<>>
    THEN IF fault = "delete"
         THEN Effect(st, c.chroma_client, c.collection, em,
                     Returned([success |-> FALSE, error |-> "exception"]))
         ELSE Effect(CollDelete(st, existing), c.chroma_client, c.collection,
                     em, Returned([success |-> TRUE, removed |-> pdf_path]))
    ELSE Effect(st, c.chroma_client, c.collection, em,
                Returned([success |-> FALSE,
                          error |-> "Paper not found in index"]))

\* the loop of list_indexed_papers over all_data["metadatas"][i..], with the
\* sources seen so far and the list of the dict's values so far
RECURSIVE PapersLoop(_, _, _, _)
PapersLoop(metadatas, i, seen, papers) ==
    IF i > Len(metadatas) THEN papers
    ELSE LET metadata == metadatas[i]
             source == metadata.source
         IN  IF source \notin seen
             THEN PapersLoop(metadatas, i + 1, seen \cup {source},
                      Append(papers,
                             [path |-> source, title |-> metadata.title,
                              author |-> metadata.author,
                              chunks |-> metadata.total_chunks]))
             ELSE PapersLoop(metadatas, i + 1, seen, papers)

\* list_indexed_papers()
list_indexed_papers(st, cl, co, em, fault) ==
    LET c == get_chroma_client(cl, co, fault) IN
    IF c.raised \/ c.collection = None \/ fault = "count"
    THEN Effect(st, c.chroma_client, c.collection, em, Raised)
    ELSE IF CollCount(st) = 0
    THEN Effect(st, c.chroma_client, c.collection, em, Returned(<<>>))
    ELSE IF fault = "get"
    THEN Effect(st, c.chroma_client, c.collection, em, Raised)
    ELSE LET all_metadatas == [i \in DOMAIN st |-> st[i].metadata]
         IN  Effect(st, c.chroma_client, c.collection, em,
                    Returned(PapersLoop(all_metadatas, 1, {}, <<>>)))

\* Queries are texts; the embedding model puts a document at cosine distance
\* 0 from a query equal to it and at distance 1 from any other query.
Queries == {<<"a">>, <<"b">>}
Distance(query, document) == IF document = query THEN 0 ELSE 1

\* collection.query(query_embeddings, n_results): the n_results records
\* nearest to the query, nearest first, ties in store order
CollQuery(st, query, n_results) ==
    LET near(r) == Distance(query, r.document) = 0
        far(r) == Distance(query, r.document) # 0
        ranked == SelectSeq(st, near) \o SelectSeq(st, far)
    IN  SubSeq(ranked, 1, Min(n_results, Len(ranked)))

\* Variant of RequestedK: the limit as given.
RequestedK_NoMin(st, limit) == limit

\* n_results of line 165: min(limit, collection.count())
RequestedK(st, limit) == Min(limit, CollCount(st))

\* search_library(query, limit)
search_library(st, cl, co, em, query, limit, fault) ==
    LET c == get_chroma_client(cl, co, fault) IN
    IF c.raised \/ c.collection = None \/ fault = "count"
    THEN Effect(st, c.chroma_client, c.collection, em, Raised)
    ELSE IF CollCount(st) = 0
    THEN Effect(st, c.chroma_client, c.collection, em, Returned(<<>>))
    ELSE
    LET m == get_embedding_model(em, fault) IN
    IF m.raised \/ fault = "encode"
    THEN Effect(st, c.chroma_client, c.collection, m.embedding_model, Raised)
    ELSE
    LET n_results == RequestedK(st, limit) IN
    IF n_results <= 0 \/ fault = "query"
    THEN Effect(st, c.chroma_client, c.collection, m.embedding_model, Raised)
    ELSE
    LET results == CollQuery(st, query, n_results)
        formatted == [i \in DOMAIN results |->
                        [content |-> results[i].document,
                         source |-> results[i].metadata.source,
                         title |-> results[i].metadata.title,
                         relevance_score |->
                             1 - Distance(query, results[i].document)]]
    IN  Effect(st, c.chroma_client, c.collection, m.embedding_model,
               Returned(formatted))

Limits == {0, 1, 5}

(***************************************************************************)
(* The state machine.  The server starts a task per tool call it receives *)
(* (CallArrives); the event loop runs the tasks one at a time, each to its *)
(* end, since call_tool never awaits.  What a call asks for does not       *)
(* matter before its handler runs, so it is picked when the handler runs.  *)
(* last.queued is the number of calls that were in flight while the last   *)
(* handler ran (the calls concurrent with it); last.before holds the       *)
(* records the store had for the path of an index or remove call before    *)
(* the call.                                                               *)
(***************************************************************************)
\* no run of chunk_text on its own
NoRun ==
    [pc |-> "idle", text |-> <<>>, chunk_size |-> DefaultChunkSize,
     overlap |-> DefaultOverlap, start |-> 0, chunks |-> <<>>,
     windows |-> <<>>]

NoCall ==
    [op |-> "none", arg |-> None, file |-> NoFile, limit |-> 0,
     fault |-> "none", queued |-> 0, before |-> <<>>,
     outcome |-> Returned(None)]

Init ==
    /\ store = <<>>
    /\ chroma_client = None
    /\ collection = None
    /\ embedding_model = None
    /\ inflight = 0
    /\ nops = 0
    /\ last = NoCall
    /\ chunker = NoRun

CallArrives ==
    /\ inflight < MaxInflight
    /\ nops + inflight < MaxOps
    /\ inflight' = inflight + 1
    /\ UNCHANGED <<store, chroma_client, collection, embedding_model, nops,
                   last, chunker>>

\* the handler's effect becomes the next state; call_tool turns an
\* exception into an "Error: ..." text, which the outcome "raise" stands for
\* (a call picked to raise that the run never makes, or whose exception
\* changes nothing, gives the run without it: such picks are left out)
Handle(op, arg, file, limit, fault, eff, plain) ==
    /\ fault = "none" \/ eff # plain
    /\ inflight' = inflight - 1
    /\ nops' = nops + 1
    /\ store' = eff.store
    /\ chroma_client' = eff.chroma_client
    /\ collection' = eff.collection
    /\ embedding_model' = eff.embedding_model
    /\ last' = [op |-> op, arg |-> arg, file |-> file, limit |-> limit,
                fault |-> fault, queued |-> inflight - 1,
                before |-> IF op \in {"library_index_pdf", "library_remove"}
                           THEN RecordsOf(store, arg)
                           ELSE <<>>,
                outcome |-> eff.outcome]
    /\ UNCHANGED chunker

CallIndexPdf ==
    /\ inflight > 0
    /\ \E path \in Paths, file \in FileIds \cup {NoFile}, fault \in Faults :
           Handle("library_index_pdf", path, file, 0, fault,
                  index_pdf(store, chroma_client, collection, embedding_model,
                            path, file, fault),
                  index_pdf(store, chroma_client, collection, embedding_model,
                            path, file, "none"))

CallSearch ==
    /\ inflight > 0
    /\ \E query \in Queries, limit \in Limits, fault \in Faults :
           Handle("library_search", query, NoFile, limit, fault,
                  search_library(store, chroma_client, collection,
                                 embedding_model, query, limit, fault),
                  search_library(store, chroma_client, collection,
                                 embedding_model, query, limit, "none"))

CallListPapers ==
    /\ inflight > 0
    /\ \E fault \in Faults :
           Handle("library_list_papers", None, NoFile, 0, fault,
                  list_indexed_papers(store, chroma_client, collection,
                                      embedding_model, fault),
                  list_indexed_papers(store, chroma_client, collection,
                                      embedding_model, "none"))

CallRemove ==
    /\ inflight > 0
    /\ \E path \in Paths, fault \in Faults :
           Handle("library_remove", path, NoFile, 0, fault,
                  remove_paper(store, chroma_client, collection,
                               embedding_model, path, fault),
                  remove_paper(store, chroma_client, collection,
                               embedding_model, path, "none"))

\* a call of a tool name call_tool does not know
CallUnknown ==
    LET eff == Effect(store, chroma_client, collection, embedding_model,
                      Returned("Unknown tool"))
    IN  /\ inflight > 0
        /\ Handle("unknown", None, NoFile, 0, "none", eff, eff)

Next ==
    \/ CallArrives
    \/ CallIndexPdf
    \/ CallSearch
    \/ CallListPapers
    \/ CallRemove
    \/ CallUnknown

Spec == Init /\ [][Next]_vars

(***************************************************************************)
(* chunk_text on its own, one pass of its loop per step, on every text of  *)
(* up to MaxTextLen characters and every chunk_size and overlap up to      *)
(* MaxChunkSize (overlap >= chunk_size included).  chunker.windows lists   *)
(* the pairs <<start, end>> of the passes made so far.                     *)
(***************************************************************************)
MaxTextLen == 5
MaxChunkSize == 3
\* Bound on the passes of the loop in a run (a run that would go on is cut).
MaxPasses == 8

Alphabet == {"a", " ", "\t"}
Texts == UNION {[1..n -> Alphabet] : n \in 0..MaxTextLen}

InitChunker ==
    /\ store = <<>>
    /\ chroma_client = None
    /\ collection = None
    /\ embedding_model = None
    /\ inflight = 0
    /\ nops = 0
    /\ last = NoCall
    /\ \E text \in Texts, chunk_size \in 1..MaxChunkSize,
          overlap \in 0..MaxChunkSize :
           chunker = [pc |-> "loop", text |-> text, chunk_size |-> chunk_size,
                      overlap |-> overlap, start |-> 0, chunks |-> <<>>,
                      windows |-> <<>>]

\* lines 61-66: the loop test holds, one pass of the loop
ChunkPass ==
    /\ chunker.pc = "loop"
    /\ chunker.start < Len(chunker.text)
    /\ Len(chunker.windows) < MaxPasses
    /\ LET pass == ChunkIter(chunker.text, chunker.chunk_size,
                             chunker.overlap, chunker.start, chunker.chunks)
       IN  chunker' = [chunker EXCEPT
                          !.start = pass.start,
                          !.chunks = pass.chunks,
                          !.windows = Append(@, <<chunker.start,
                                  chunker.start + chunker.chunk_size>>)]
    /\ UNCHANGED <<store, chroma_client, collection, embedding_model,
                   inflight, nops, last>>

\* lines 61, 67: the loop test fails, chunk_text returns chunks
ChunkReturn ==
    /\ chunker.pc = "loop"
    /\ ~(chunker.start < Len(chunker.text))
    /\ chunker' = [chunker EXCEPT !.pc = "done"]
    /\ UNCHANGED <<store, chroma_client, collection, embedding_model,
                   inflight, nops, last>>

NextChunker ==
    \/ ChunkPass
    \/ ChunkReturn

SpecChunk == InitChunker /\ [][NextChunker]_vars

(***************************************************************************)
(* Vocabulary of the properties.                                           *)
(***************************************************************************)
IsIndexCall(c) == c.op = "library_index_pdf"

\* the call returned {"success": True, ...}
IndexSucceeded(c) ==
    /\ IsIndexCall(c)
    /\ c.outcome.kind = "return"
    /\ c.outcome.value.success

\* the call returned {"success": False, ...} or ended in an exception
IndexFailed(c) == IsIndexCall(c) /\ ~IndexSucceeded(c)

\* a text with no character other than whitespace (the empty text included)
IsBlank(text) == \A i \in DOMAIN text : text[i] \in Whitespace

\* the generation of a file at a path: the records one index_pdf run computes
GenerationOf(path, file) ==
    IF file = NoFile THEN <<>>
    ELSE LET chunks == FileChunks[file]
             metadata == Files[file].metadata
         IN  CollAdd(<<>>, NewIds(path, chunks), chunks,
                     NewMetadatas(path,
                                  DictGet(metadata, "title", Stem(path)),
                                  DictGet(metadata, "author", "Unknown"),
                                  chunks))

\* this step handles a tool call
Handled == nops' = nops + 1

\* C1: after an index_pdf of a path that returns success with fewer chunks
\* than the store held for that path before the call, no record the store
\* held for that path before the call is still in the store.
C1_AtomicReplace ==
    (/\ IndexSucceeded(last)
     /\ last.outcome.value.chunks_indexed < Len(last.before))
    => \A r \in Range(RecordsOf(store, last.arg)) : r \notin Range(last.before)

\* C2: in every reachable state, records with the same source have the same
\* total_chunks.
C2_SameTotalChunks ==
    \A r1 \in Range(store), r2 \in Range(store) :
        r1.metadata.source = r2.metadata.source
        => r1.metadata.total_chunks = r2.metadata.total_chunks

\* C3: in every reachable state, the chunk_index values of the records of a
\* source are exactly 0 .. total_chunks-1, each once.
C3_ContiguousIndexes ==
    \A path \in Paths :
        LET recs == RecordsOf(store, path)
        IN  \A r \in Range(recs) :
                /\ {x.metadata.chunk_index : x \in Range(recs)}
                       = 0 .. (r.metadata.total_chunks - 1)
                /\ Len(recs) = r.metadata.total_chunks

\* C4: an index_pdf of a path that fails (a failure result or an exception)
\* leaves the records of that path as they were before the call.
C4_FailureAtomic ==
    IndexFailed(last) => RecordsOf(store, last.arg) = last.before

\* C5: when two index_pdf calls of the same path are in flight together and
\* both return success, the records of the path in the store afterwards all
\* belong to one of the two generations.
C5_NoMixedGenerations ==
    [][(/\ IndexSucceeded(last)
        /\ last.queued >= 1
        /\ Handled
        /\ IndexSucceeded(last')
        /\ last'.arg = last.arg)
       => \/ Range(RecordsOf(store', last.arg))
                \subseteq Range(GenerationOf(last.arg, last.file))
          \/ Range(RecordsOf(store', last.arg))
                \subseteq Range(GenerationOf(last.arg, last'.file))]_vars

\* C6: a search or list call that was in flight while an index_pdf call
\* re-indexed a path finds, for that path, either all the records the path
\* had before that call or all the records of the new generation.
C6_QuerySeesWholeGeneration ==
    [][(/\ IsIndexCall(last)
        /\ last.before # <<>>
        /\ last.queued >= 1
        /\ Handled
        /\ last'.op \in {"library_search", "library_list_papers"})
       => \/ RecordsOf(store, last.arg) = last.before
          \/ /\ RecordsOf(store, last.arg) # <<>>
             /\ RecordsOf(store, last.arg)
                    = GenerationOf(last.arg, last.file)]_vars

\* C7: whenever get_chroma_client returns to a caller, the collection it
\* returns is not None.
C7_CollectionInitialized ==
    \A fault \in Faults :
        LET c == get_chroma_client(chroma_client, collection, fault)
        IN  ~c.raised => c.collection # None

\* C8: after an index_pdf of a path returns success with n chunks, each of
\* the ids generate_doc_id(path, 0 .. n-1) is the id of a record of that
\* path (no record of another path holds it).
C8_NoIdCollision ==
    IndexSucceeded(last)
    => \A i \in 0 .. (last.outcome.value.chunks_indexed - 1) :
          \E r \in Range(store) :
              /\ r.id = generate_doc_id(last.arg, i)
              /\ r.metadata.source = last.arg

\* C9: an index_pdf that returns success, right after an index_pdf of the
\* same path and the same file that returned success, leaves the store with
\* the records it had.
C9_ReingestIdempotent ==
    [][(/\ IndexSucceeded(last)
        /\ Handled
        /\ IndexSucceeded(last')
        /\ last'.arg = last.arg
        /\ last'.file = last.file)
       => Range(store') = Range(store)]_vars

\* the path has no file, is not a PDF, or the file's text is blank
Unindexable(path, file) ==
    \/ file = NoFile
    \/ SuffixLower(path) # ".pdf"
    \/ IsBlank(Files[file].text)

\* C10: an index_pdf of a missing file, of a path that is not a PDF or of a
\* file with blank text returns a failure result and changes no record.
C10_RejectedInputLeavesStore ==
    [][(/\ Handled
        /\ IsIndexCall(last')
        /\ Unindexable(last'.arg, last'.file))
       => /\ store' = store
          /\ last'.outcome.kind = "return"
          /\ ~last'.outcome.value.success]_vars

\* C10 witness: index_pdf was called on a PDF path whose file has blank,
\* non-empty text while the store held records of that path.
C10_Witness ==
    /\ IsIndexCall(last)
    /\ last.file # NoFile
    /\ SuffixLower(last.arg) = ".pdf"
    /\ Files[last.file].text # <<>>
    /\ IsBlank(Files[last.file].text)
    /\ last.before # <<>>
    /\ RecordsOf(store, last.arg) = last.before

\* C11: an index_pdf in which the lookup or the deletion of the path's
\* existing records raised does not return success: the failure is reported
\* and the new records are not inserted after it.
C11_LookupFailureSurfaced ==
    (/\ IsIndexCall(last)
     /\ last.fault \in {"get", "delete"}
     /\ last.before # <<>>)
    => /\ ~IndexSucceeded(last)
       /\ RecordsOf(store, last.arg) = last.before

IsRemoveCall(c) == c.op = "library_remove"

\* the call returned {"success": True, "removed": ...}
RemoveSucceeded(c) ==
    /\ IsRemoveCall(c)
    /\ c.outcome.kind = "return"
    /\ c.outcome.value.success

\* the result of remove_paper for a path with no record in the index
NotFound == Returned([success |-> FALSE, error |-> "Paper not found in index"])

\* list_indexed_papers, run without an exception, has an entry for the source
Listed(st, cl, co, em, source) ==
    LET out == list_indexed_papers(st, cl, co, em, "none").outcome
    IN  /\ out.kind = "return"
        /\ \E i \in DOMAIN out.value : out.value[i].path = source

\* no call on the store raised in the call: none was picked to raise and the
\* collection handle is set
NoStoreException(c, co) == c.fault = "none" /\ co # None

\* C12 as stated: after a remove_paper of a path that returns success the
\* store holds no record of the path and list_indexed_papers has no entry
\* for it; a remove_paper of a path of which the store holds no record
\* returns "Paper not found in index" and leaves the store as it was.
C12_RemoveThenNotFound ==
    [][(Handled /\ IsRemoveCall(last'))
       => /\ RemoveSucceeded(last')
             => /\ RecordsOf(store', last'.arg) = <<>>
                /\ ~Listed(store', chroma_client', collection',
                           embedding_model', last'.arg)
          /\ RecordsOf(store, last'.arg) = <<>>
             => /\ last'.outcome = NotFound
                /\ store' = store]_vars

\* C12 amended: after a remove_paper of a path that returns success the
\* store holds no record of the path and list_indexed_papers has no entry
\* for it; a remove_paper of a path of which the store holds no record does
\* not return success and leaves the store as it was, and it returns "Paper
\* not found in index" unless a call on the store raised in it; "Paper not
\* found in index" is returned only when the store held no record of the path.
C12_RemoveThenNotFoundUnlessRaised ==
    [][(Handled /\ IsRemoveCall(last'))
       => /\ RemoveSucceeded(last')
             => /\ RecordsOf(store', last'.arg) = <<>>
                /\ ~Listed(store', chroma_client', collection',
                           embedding_model', last'.arg)
          /\ RecordsOf(store, last'.arg) = <<>>
             => /\ ~RemoveSucceeded(last')
                /\ store' = store
                /\ NoStoreException(last', collection')
                   => last'.outcome = NotFound
          /\ last'.outcome = NotFound
             => RecordsOf(store, last'.arg) = <<>>]_vars

\* C12 witness: a remove_paper returned success for a path that had two or
\* more records, the store holds none of them and still holds the records of
\* another path, which list_indexed_papers lists.
C12_Witness ==
    /\ RemoveSucceeded(last)
    /\ Len(last.before) >= 2
    /\ RecordsOf(store, last.arg) = <<>>
    /\ \E p \in Paths : Listed(store, chroma_client, collection,
                               embedding_model, p)

\* C13 as stated: a remove_paper that returns success reports, as "removed",
\* a count, the number of records of the path the store held before the call.
C13_RemovedIsCount ==
    RemoveSucceeded(last)
    => /\ last.outcome.value.removed \notin Paths
       /\ last.outcome.value.removed = Len(last.before)

\* C13 amended: a remove_paper that returns success reports, as "removed",
\* the path it was called with; the number of records the store lost in the
\* call is the number of records of the path it held before the call, which
\* is one or more.
C13_RemovedIsPath ==
    [][(Handled /\ RemoveSucceeded(last'))
       => /\ last'.outcome.value.removed = last'.arg
          /\ Len(store) - Len(store') = Len(RecordsOf(store, last'.arg))
          /\ Len(RecordsOf(store, last'.arg)) >= 1]_vars

\* C13 witness: a remove_paper returned success with "removed" the path, for
\* a path of which the store held two or more records.
C13_Witness ==
    /\ RemoveSucceeded(last)
    /\ last.outcome.value.removed = last.arg
    /\ Len(last.before) >= 2
    /\ store # <<>>

IsListCall(c) == c.op = "library_list_papers"

\* the sources of the records of a store
SourcesOf(st) == {st[i].metadata.source : i \in DOMAIN st}

\* C14: a list_indexed_papers that returns has one entry for each source of
\* the store's records and no other entry (none for the empty store), each
\* with the title, author and total_chunks of the first record of its source
\* in store order, and the chunk count of each entry is the number of
\* records the store holds for its source.
C14_ListMatchesStore ==
    (IsListCall(last) /\ last.outcome.kind = "return")
    => LET papers == last.outcome.value IN
       /\ {papers[i].path : i \in DOMAIN papers} = SourcesOf(store)
       /\ Len(papers) = Cardinality(SourcesOf(store))
       /\ \A i \in DOMAIN papers :
             LET first == RecordsOf(store, papers[i].path)[1].metadata IN
             /\ papers[i].title = first.title
             /\ papers[i].author = first.author
             /\ papers[i].chunks = first.total_chunks
             /\ papers[i].chunks = Len(RecordsOf(store, papers[i].path))

\* a run of chunk_text that has returned
ChunkDone == chunker.pc = "done"

\* the parameters of the run satisfy 0 <= overlap < chunk_size
ValidParams == chunker.overlap >= 0 /\ chunker.overlap < chunker.chunk_size

\* C15: chunk_text of a text shorter than chunk_size, with
\* 0 <= overlap < chunk_size, returns exactly one chunk, the whole text
\* stripped, also when the length of the text is strictly between
\* chunk_size - overlap and chunk_size.
C15_ShortTextOneChunk ==
    (/\ ChunkDone
     /\ ValidParams
     /\ Len(chunker.text) < chunker.chunk_size
     /\ ~IsBlank(chunker.text))
    => chunker.chunks = <<Strip(chunker.text)>>

\* C16: a run of chunk_text with overlap >= chunk_size makes no pass of its
\* loop (it is refused at once); in every run each pass of the loop starts
\* strictly after the one before it; and a run with 0 <= overlap < chunk_size
\* makes at most one pass for each character of the text.
C16_InvalidOverlapRefused ==
    /\ chunker.overlap >= chunker.chunk_size => chunker.windows = <<>>
    /\ \A i \in 1..(Len(chunker.windows) - 1) :
          chunker.windows[i + 1][1] > chunker.windows[i][1]
    /\ ValidParams => Len(chunker.windows) <= Len(chunker.text)

\* C16, the part that holds: a run of chunk_text with
\* 0 <= overlap < chunk_size moves start forward in each pass of the loop
\* and makes at most one pass for each character of the text.
C16_ValidRunProgresses ==
    ValidParams
    => /\ \A i \in 1..(Len(chunker.windows) - 1) :
             chunker.windows[i + 1][1] > chunker.windows[i][1]
       /\ Len(chunker.windows) <= Len(chunker.text)

\* the window of pass k of a run (k from 0) as the claim names it
WindowOf(k) ==
    <<k * (chunker.chunk_size - chunker.overlap),
      k * (chunker.chunk_size - chunker.overlap) + chunker.chunk_size>>

\* position p of the text (from 0) is in the window w = <<start, end>>
InWindow(p, w) == w[1] <= p /\ p < w[2]

\* the text of a window of the run, stripped
ChunkOfWindow(w) == Strip(Slice(chunker.text, w[1], w[2]))

\* C17: in a run of chunk_text with 0 <= overlap < chunk_size that has
\* returned, pass k of the loop took the window
\* [k*step, k*step + chunk_size) with step = chunk_size - overlap, every
\* position of the text is in one of the windows taken, every character
\* that is not whitespace is in a window whose stripped text is one of the
\* chunks returned, and each window shares exactly overlap positions with
\* the one before it.
C17_WindowsCoverText ==
    (ChunkDone /\ ValidParams)
    => /\ \A k \in DOMAIN chunker.windows :
             chunker.windows[k] = WindowOf(k - 1)
       /\ \A p \in 0..(Len(chunker.text) - 1) :
             \E k \in DOMAIN chunker.windows :
                 InWindow(p, chunker.windows[k])
       /\ \A p \in 0..(Len(chunker.text) - 1) :
             chunker.text[p + 1] \notin Whitespace
             => \E k \in DOMAIN chunker.windows :
                   /\ InWindow(p, chunker.windows[k])
                   /\ ChunkOfWindow(chunker.windows[k]) # <<>>
                   /\ \E j \in DOMAIN chunker.chunks :
                         chunker.chunks[j] =
                             ChunkOfWindow(chunker.windows[k])
       /\ \A k \in 1..(Len(chunker.windows) - 1) :
             Cardinality({p \in chunker.windows[k][1]
                                  ..(chunker.windows[k][2] - 1) :
                              InWindow(p, chunker.windows[k + 1])})
                 = chunker.overlap

\* C17 witness: a run with overlap 1 or more has returned after three or
\* more passes, one of them over a window of whitespace only.
C17_Witness ==
    /\ ChunkDone
    /\ ValidParams
    /\ chunker.overlap >= 1
    /\ Len(chunker.windows) >= 3
    /\ Len(chunker.chunks) < Len(chunker.windows)
    /\ chunker.chunks # <<>>

\* a divided by b, rounded up
CeilDiv(a, b) == (a + b - 1) \div b

\* the number of windows of the run that start inside the text
WindowCount ==
    CeilDiv(Len(chunker.text), chunker.chunk_size - chunker.overlap)

\* no window of the run that starts inside the text is whitespace only
NoBlankWindow ==
    \A k \in 0..(WindowCount - 1) :
        ~IsBlank(Slice(chunker.text, WindowOf(k)[1], WindowOf(k)[2]))

\* the scenario of a text of 2400 characters, none of them whitespace, with
\* the default chunk_size and overlap: its chunks and the records index_pdf
\* writes for them into an empty store
Text2400 == [i \in 1..2400 |-> "a"]
Chunks2400 == chunk_text(Text2400, DefaultChunkSize, DefaultOverlap)
Records2400 ==
    IndexChunks(<<>>, None, None, None, PathC, "T", "Au", Chunks2400,
                "none").store

\* C18: a run of chunk_text with 0 <= overlap < chunk_size on a text of
\* length L with no whitespace-only window returns ceil(L / step) chunks,
\* step = chunk_size - overlap, chunk j being the stripped text of the
\* window that starts at (j-1)*step, and the loop ends at the first start
\* that is not below L; a text of 2400 characters gives the three chunks of
\* the windows 0-1000, 800-1800 and 1600-2400, and the three records
\* index_pdf writes for them all have total_chunks = 3.
C18_ChunkCount ==
    /\ (ChunkDone /\ ValidParams /\ NoBlankWindow)
       => /\ Len(chunker.chunks) = WindowCount
          /\ \A j \in DOMAIN chunker.chunks :
                chunker.chunks[j] = ChunkOfWindow(WindowOf(j - 1))
          /\ chunker.start = WindowOf(WindowCount)[1]
          /\ chunker.start >= Len(chunker.text)
          /\ chunker.chunks = chunk_text(chunker.text, chunker.chunk_size,
                                         chunker.overlap)
    /\ Chunks2400 = <<SubSeq(Text2400, 1, 1000), SubSeq(Text2400, 801, 1800),
                      SubSeq(Text2400, 1601, 2400)>>
    /\ Len(Records2400) = 3
    /\ \A i \in DOMAIN Records2400 :
          /\ Records2400[i].metadata.total_chunks = 3
          /\ Records2400[i].metadata.chunk_index = i - 1

\* C18 witness: a run with overlap 1 or more on a text with no
\* whitespace-only window, of a length that is not a multiple of the step,
\* has returned three or more chunks.
C18_Witness ==
    /\ ChunkDone
    /\ ValidParams
    /\ chunker.overlap >= 1
    /\ NoBlankWindow
    /\ Len(chunker.text) % (chunker.chunk_size - chunker.overlap) # 0
    /\ Len(chunker.chunks) >= 3
    /\ Len(chunker.chunks) = WindowCount

IsSearchCall(c) == c.op = "library_search"

\* C19 as stated: a search_library on a store with no record returns the
\* empty list and never an error; on a store with records it asks the
\* collection for k = min(limit, count) results with 1 <= k <= count, and
\* returns at most limit results.
C19_SearchBounds ==
    IsSearchCall(last)
    => /\ store = <<>> => last.outcome = Returned(<<>>)
       /\ (store # <<>> /\ NoStoreException(last, collection))
          => /\ 1 <= RequestedK(store, last.limit)
             /\ RequestedK(store, last.limit) <= CollCount(store)
             /\ last.outcome.kind = "return"
             /\ Len(last.outcome.value) <= last.limit

\* C19 amended: a search_library on a store with no record returns the
\* empty list unless a call on the store raised in it; on a store with
\* records and with limit >= 1 it asks the collection for
\* k = min(limit, count) results with 1 <= k <= count and, if nothing
\* raises, returns exactly k results, which is at most limit; with
\* limit <= 0 on a store with records k is not 1 or more and the call ends
\* in an exception.
C19_SearchBoundsForPositiveLimit ==
    IsSearchCall(last)
    => LET k == RequestedK(store, last.limit) IN
       /\ (store = <<>> /\ NoStoreException(last, collection))
          => last.outcome = Returned(<<>>)
       /\ (store # <<>> /\ last.limit >= 1)
          => /\ 1 <= k
             /\ k <= CollCount(store)
             /\ k <= last.limit
             /\ NoStoreException(last, collection)
                => /\ last.outcome.kind = "return"
                   /\ Len(last.outcome.value) = k
       /\ (store # <<>> /\ last.outcome.kind = "return")
          => /\ last.limit >= 1
             /\ Len(last.outcome.value) = k
       /\ (store # <<>> /\ last.limit <= 0)
          => last.outcome.kind = "raise"

\* C19 witness: a search_library with a limit above the number of records
\* of the store returned as many results as the store has records, one or
\* more.
C19_Witness ==
    /\ IsSearchCall(last)
    /\ last.outcome.kind = "return"
    /\ store # <<>>
    /\ last.limit > CollCount(store)
    /\ Len(last.outcome.value) = CollCount(store)

\* C20: an index_pdf or a remove_paper of a path, whatever its outcome,
\* leaves the records of every other path as they were: none added, none
\* deleted, none changed, their order kept; a search_library, a
\* list_indexed_papers or a call of an unknown tool leaves the whole store
\* as it was.
C20_OtherSourcesUntouched ==
    [][Handled
       => /\ (IsIndexCall(last') \/ IsRemoveCall(last'))
             => \A p \in Paths \ {last'.arg} :
                    RecordsOf(store', p) = RecordsOf(store, p)
          /\ ~(IsIndexCall(last') \/ IsRemoveCall(last'))
             => store' = store]_vars

\* C20 witness: an index_pdf of a path returned success and replaced the
\* records of the path while the store holds a record of another path whose
\* id has the same md5 prefix.
C20_Witness ==
    /\ IndexSucceeded(last)
    /\ last.before # <<>>
    /\ RecordsOf(store, last.arg) # last.before
    /\ \E i \in DOMAIN store :
          /\ store[i].metadata.source # last.arg
          /\ store[i].id[1] = Md5Hex8(last.arg)

====
